---- MODULE Spec2Model ----
(***************************************************************************)
(* The per-guild bump-cycle scheduler of the Picklebump cog                *)
(* (src/picklebump/core.py): the bump_check_loop task, the per-guild       *)
(* "Bump Task" and "Wait for Bump Task", the on_message cooldown and the   *)
(* cog's unload.                                                           *)
(*                                                                         *)
(* Time.  One clock unit is TickSeconds seconds.  Every instant the        *)
(* program holds (a stored next_bump, the wake-up time of a sleep, the     *)
(* deadline of a wait) is kept RELATIVE to the current instant: Now is the *)
(* origin and the action Tick moves every held instant one unit towards    *)
(* the past.  The code only ever compares an instant with now() or         *)
(* subtracts now() from it, so nothing is lost, and the clock can run for  *)
(* ever in a finite state space.  Instants further than MaxPast units in   *)
(* the past are kept at -MaxPast.                                          *)
(*                                                                         *)
(* Scheduling.  asyncio runs one coroutine at a time up to its next await. *)
(* Every action below is one such run.  Computation takes no clock time:   *)
(* Tick is enabled only when every coroutine is suspended on a sleep or a  *)
(* wait that has not expired, on a task that has not finished, or on the   *)
(* gateway.                                                                *)
(***************************************************************************)
EXTENDS Integers, Sequences, FiniteSets

VARIABLES
    config,      \* Config: per guild [channel, role, next_bump]
    discord,     \* the gateway's view: existing channels and roles, permissions, role members
    loaded,      \* the cog is loaded (FALSE after cog_unload)
    loop,        \* self.bump_loop: the bump_check_loop task
    bump_tasks,  \* self.bump_tasks: per guild the "bump" and "wait" tasks
    orphans,     \* tasks replaced in bump_tasks while still running
    cooldowns,   \* on_message handlers suspended in their 2-hour sleep, oldest first
    out,         \* what the last step did to the outside world (messages, reactions, writes, logs)
    reminded,    \* per guild: a reminder has been sent since start-up
    aborted,     \* per guild: a dispatch was aborted and no bump signal came since
    uptime       \* clock units since wait_until_ready returned, -1 before, capped at MaxPast

vars == <<config, discord, loaded, loop, bump_tasks, orphans, cooldowns, out,
          reminded, aborted, uptime>>

-----------------------------------------------------------------------------
(* Bounds of the model *)

NumGuilds == 2
MaxMembers == 1
MaxPast == 2
MaxFuture == 2
MaxCooldowns == 2

Guilds == 1..NumGuilds
Members == 1..MaxMembers

\* Optional[T]: None is the empty sequence, a value x is <<x>>.
None == <<>>

Some(x) == <<x>>

Val(o) == o[1]

-----------------------------------------------------------------------------
(* Clock *)

TickSeconds == 60 * 60

Now == 0

Ticks(seconds) == seconds \div TickSeconds

\* asyncio.sleep(seconds) begun somewhere inside a clock unit ends after
\* the whole units of the delay, or one more when the delay is not a whole
\* number of units.
SleepTicks(seconds) ==
    IF seconds % TickSeconds = 0
    THEN {Ticks(seconds)}
    ELSE {Ticks(seconds), Ticks(seconds) + 1}

COOLDOWN == 2 * 60 * 60

WAIT_TIMEOUT == 15 * 60

BUMP_INTERVAL == 2 * 60 * 60

Earlier(t) == IF t - 1 < -MaxPast THEN -MaxPast ELSE t - 1

EarlierOpt(o) == IF o = None THEN None ELSE Some(Earlier(Val(o)))

-----------------------------------------------------------------------------
(* The bump detector *)

DISCORD_BOT_ID == "302050872383242240"

Authors == {DISCORD_BOT_ID, "140564059417346049"}

WordChars ==
    {"a", "b", "c", "d", "e", "h", "i", "l", "m", "n", "o", "p", "u", "w",
     "B", "D", "M", "P", "U", "_", "0", "1"}

BUMP_RE == <<"!", "d", " ", "b", "u", "m", "p">>

\* BUMP_RE.search(content): "!d bump" somewhere in content, followed by a
\* word boundary (the end of the content or a non-word character).
Search(content) ==
    \E i \in 1..Len(content) :
        /\ i + Len(BUMP_RE) - 1 <= Len(content)
        /\ SubSeq(content, i, i + Len(BUMP_RE) - 1) = BUMP_RE
        /\ \/ i + Len(BUMP_RE) > Len(content)
           \/ content[i + Len(BUMP_RE)] \notin WordChars

Contents ==
    { <<"!", "d", " ", "b", "u", "m", "p">>,
      <<"!", "d", " ", "b", "u", "m", "p", "e", "d">>,
      <<"!", "D", " ", "b", "u", "m", "p">>,
      <<"h", "e", "l", "l", "o">> }

IsBumpSignal(m) == m.author = DISCORD_BOT_ID /\ Search(m.content)

\* check(m) without its author test
check_AnyAuthor(m) == Search(m.content)

\* wait_for_bump's check(m)
check(m) == m.author = DISCORD_BOT_ID /\ Search(m.content)

Messages == [author : Authors, content : Contents, guild : Guilds]

NoMessage == [author |-> "", content |-> <<>>, guild |-> 0]

-----------------------------------------------------------------------------
(* Names the interpreter can resolve inside bump() *)

ModuleNames ==
    {"asyncio", "logging", "re", "defaultdict", "datetime", "timezone",
     "Any", "Coroutine", "DefaultDict", "Dict", "Final", "List", "Literal",
     "Match", "Optional", "Pattern", "TypeAlias", "Union",
     "discord", "tse", "Config", "commands", "Red", "AsyncIter", "box",
     "FuzzyRole", "LocalizedMessageValidator",
     "log", "RequestType", "DISCORD_BOT_ID", "LOCK_REASON", "MENTION_RE",
     "BUMP_RE", "DEFAULT_GUILD_MESSAGE", "DEFAULT_GUILD_THANKYOU_MESSAGE",
     "Picklebump", "setup"}

BumpLocals ==
    {"self", "guild_id", "channel", "role", "message", "ty_message",
     "bump_message", "bump_task", "member", "next_bump"}

\* every name resolves
Resolves_Any(name) == TRUE

\* A name used in bump() resolves to a local of bump() or to a module global;
\* otherwise evaluating it raises NameError.
Resolves(name) == name \in BumpLocals \cup ModuleNames

-----------------------------------------------------------------------------
(* Tasks *)

NoTask == [pc |-> "absent", wake |-> 0, bump_message |-> FALSE, todo |-> {},
           bump |-> NoMessage]

Finished == {"returned", "raised", "cancelled"}

Running(t) == t.pc \notin Finished \cup {"absent"}

\* self.create_task(self.bump(...), name="Bump Task")
NewBumpTask == [NoTask EXCEPT !.pc = "created"]

\* self.create_task(self.wait_for_bump(...), name="Wait for Bump Task"),
\* run up to bot.wait_for("message", check=check, timeout=15 * 60), whose
\* timeout expires d clock units from now
NewWaitTask(d) == [NoTask EXCEPT !.pc = "wait_for", !.wake = Now + d]

Event(kind, guild, who) == [kind |-> kind, guild |-> guild, who |-> who]

ChannelOf(g) == g

RoleOf(g) == g

-----------------------------------------------------------------------------
(* Start-up *)

\* What the gateway and the store can look like for one guild when the cog
\* is constructed: everything in order, or one thing wrong with it.
Profiles ==
    {"ok", "no_channel", "channel_gone", "no_role", "role_gone", "no_perm",
     "forbidden"}

NextBumps == {None} \cup {Some(t) : t \in 0..MaxFuture}

\* A guild whose channel or role is not set or cannot be resolved is skipped
\* before its next_bump is read, and a guild whose reminder cannot be sent
\* never reaches its role's members: those values are fixed in the initial
\* state, but for the guild without a role, whose next_bump is unset or due.
Startable(p, nb, mem) ==
    /\ p \in {"no_channel", "channel_gone"} => nb = None
    /\ p \in {"no_role", "role_gone"} => nb \in {None, Some(Now)}
    /\ p # "ok" => mem = {}

\* default_guild, with the keys the scheduler reads
GuildData(g, p, nb) ==
    [channel   |-> IF p = "no_channel" THEN None ELSE Some(ChannelOf(g)),
     role      |-> IF p = "no_role" THEN None ELSE Some(RoleOf(g)),
     next_bump |-> nb]

NoData == [g \in Guilds |-> [channel |-> None, role |-> None, next_bump |-> None]]

\* self.bump_loop = self.create_task(self.bump_check_loop()), run up to
\* await self.bot.wait_until_ready()
NewLoop == [pc |-> "wait_until_ready", idx |-> 1, data |-> NoData, wake |-> 0]

Init ==
    \E prof \in [Guilds -> Profiles], nb \in [Guilds -> NextBumps],
       mem \in [Guilds -> {{}, Members}] :
        /\ \A g \in Guilds : Startable(prof[g], nb[g], mem[g])
        /\ config = [g \in Guilds |-> GuildData(g, prof[g], nb[g])]
        /\ discord =
             [channels |-> {ChannelOf(g) : g \in {h \in Guilds : prof[h] # "channel_gone"}},
              roles    |-> {RoleOf(g) : g \in {h \in Guilds : prof[h] # "role_gone"}},
              perm     |-> [g \in Guilds |->
                              IF prof[g] \in {"no_perm", "forbidden"} THEN prof[g] ELSE "ok"],
              members  |-> mem]
        /\ loaded = TRUE
        /\ loop = NewLoop
        /\ bump_tasks = [g \in Guilds |-> [bump |-> NoTask, wait |-> NoTask]]
        /\ orphans = {}
        /\ cooldowns = <<>>
        /\ out = {}
        /\ reminded = [g \in Guilds |-> FALSE]
        /\ aborted = [g \in Guilds |-> FALSE]
        /\ uptime = -1

-----------------------------------------------------------------------------
(* The event loop *)

\* the guild the async for of bump_check_loop is at
LoopGuild == loop.idx

\* Some coroutine is ready to run.  The gateway's events, the commands and
\* the clock are served when none is.
Busy ==
    \/ loop.pc \in {"all_guilds", "visit"}
    \/ loop.pc = "await_bump" /\ bump_tasks[LoopGuild].bump.pc \in Finished
    \/ loop.pc \in {"sleep_1", "sleep_delta"} /\ loop.wake <= Now
    \/ \E g \in Guilds :
         \/ bump_tasks[g].bump.pc \in {"created", "send", "members"}
         \/ bump_tasks[g].bump.pc = "await_wait" /\ bump_tasks[g].wait.pc \in Finished
         \/ bump_tasks[g].bump.pc = "sleep_1" /\ bump_tasks[g].bump.wake <= Now
         \/ bump_tasks[g].wait.pc = "wait_for" /\ bump_tasks[g].wait.wake <= Now
    \/ \E i \in 1..Len(cooldowns) : cooldowns[i].wake <= Now

-----------------------------------------------------------------------------
(* bump_check_loop *)

\* await self.bot.wait_until_ready() returns
LoopReady ==
    /\ loop.pc = "wait_until_ready"
    /\ loop' = [loop EXCEPT !.pc = "all_guilds"]
    /\ uptime' = 0
    /\ out' = {}
    /\ UNCHANGED <<config, discord, loaded, bump_tasks, orphans, cooldowns,
                   reminded, aborted>>

\* while True: ... (await self.config.all_guilds()).items()
LoopAllGuilds ==
    /\ loop.pc = "all_guilds"
    /\ loop' = [loop EXCEPT !.pc = "visit", !.idx = 1, !.data = config]
    /\ out' = {}
    /\ UNCHANGED <<config, discord, loaded, bump_tasks, orphans, cooldowns,
                   reminded, aborted, uptime>>

\* `continue`, or the end of the for body: on to the next guild of the pass
NextGuild(l) ==
    IF l.idx < NumGuilds
    THEN [l EXCEPT !.pc = "visit", !.idx = l.idx + 1, !.wake = 0]
    ELSE [l EXCEPT !.pc = "all_guilds", !.idx = 1, !.data = NoData, !.wake = 0]

\* the test without `now >= next_bump`: only an unset next_bump is due
Due_UnsetOnly(next_bump) == next_bump = None

\* `if not next_bump or now >= next_bump`
Due(next_bump) == next_bump = None \/ Now >= Val(next_bump)

\* One run of the for body, from the top to its first await or `continue`.
LoopVisit ==
    /\ loop.pc = "visit"
    /\ LET g == LoopGuild
           guild_data == loop.data[g]
           channel_id == guild_data.channel
           role_id == guild_data.role
           next_bump == guild_data.next_bump
       IN  IF channel_id = None
           THEN /\ loop' = NextGuild(loop)
                /\ out' = {}
                /\ UNCHANGED <<bump_tasks, orphans, aborted>>
           ELSE IF Val(channel_id) \notin discord.channels
           THEN /\ loop' = NextGuild(loop)
                /\ out' = {Event("warning", g, 0)}
                /\ aborted' = [aborted EXCEPT ![g] = TRUE]
                /\ UNCHANGED <<bump_tasks, orphans>>
           ELSE IF role_id = None \/ Val(role_id) \notin discord.roles
           THEN /\ loop' = NextGuild(loop)
                /\ out' = {Event("warning", g, 0)}
                /\ UNCHANGED <<bump_tasks, orphans, aborted>>
           ELSE IF Due(next_bump)
           THEN /\ bump_tasks' = [bump_tasks EXCEPT ![g].bump = NewBumpTask]
                /\ orphans' = IF Running(bump_tasks[g].bump)
                              THEN orphans \cup {<<g, "bump">>}
                              ELSE orphans
                /\ loop' = [loop EXCEPT !.pc = "await_bump"]
                /\ out' = {Event("dispatch", g, 0)}
                /\ UNCHANGED aborted
           ELSE /\ loop' = [loop EXCEPT !.pc = "sleep_delta",
                                        !.wake = Now + (Val(next_bump) - Now)]
                /\ out' = {}
                /\ UNCHANGED <<bump_tasks, orphans, aborted>>
    /\ UNCHANGED <<config, discord, loaded, cooldowns, reminded, uptime>>

\* the loop going on to asyncio.sleep(1) without awaiting the task
LoopAwaitBump_NoAwait ==
    /\ loop.pc = "await_bump"
    /\ \E d \in SleepTicks(1) : loop' = [loop EXCEPT !.pc = "sleep_1", !.wake = Now + d]
    /\ out' = {}
    /\ UNCHANGED <<config, discord, loaded, bump_tasks, orphans, cooldowns,
                   reminded, aborted, uptime>>

\* `await bump_task` resumes: with the task's result, or with the exception
\* the task raised, which nothing in bump_check_loop catches.
LoopAwaitBump ==
    /\ loop.pc = "await_bump"
    /\ LET t == bump_tasks[LoopGuild].bump
       IN  /\ t.pc \in Finished
           /\ \E d \in SleepTicks(1) :
                loop' = IF t.pc = "returned"
                        THEN [loop EXCEPT !.pc = "sleep_1", !.wake = Now + d]
                        ELSE [loop EXCEPT !.pc = t.pc, !.data = NoData, !.idx = 1]
           /\ out' = IF t.pc = "raised"
                     THEN {Event("task_failed", 0, 0)}
                     ELSE {}
    /\ UNCHANGED <<config, discord, loaded, bump_tasks, orphans, cooldowns,
                   reminded, aborted, uptime>>

\* asyncio.sleep(1) or asyncio.sleep(delta) returns; the for body ends
LoopWake ==
    /\ loop.pc \in {"sleep_1", "sleep_delta"}
    /\ loop.wake <= Now
    /\ loop' = NextGuild(loop)
    /\ out' = {}
    /\ UNCHANGED <<config, discord, loaded, bump_tasks, orphans, cooldowns,
                   reminded, aborted, uptime>>

-----------------------------------------------------------------------------
(* bump: the "Bump Task" of guild g *)

\* the task's start without the permission check
BumpBegin_NoPermissionCheck(g) ==
    /\ bump_tasks[g].bump.pc = "created"
    /\ bump_tasks' = [bump_tasks EXCEPT ![g].bump.pc = "send"]
    /\ out' = {}
    /\ UNCHANGED <<config, discord, loaded, loop, orphans, cooldowns, reminded,
                   aborted, uptime>>

\* The task starts: the permission check, up to `async with channel.typing()`
BumpBegin(g) ==
    /\ bump_tasks[g].bump.pc = "created"
    /\ IF discord.perm[g] = "no_perm"
       THEN /\ bump_tasks' = [bump_tasks EXCEPT ![g].bump.pc = "returned"]
            /\ aborted' = [aborted EXCEPT ![g] = TRUE]
            /\ out' = {Event("warning", g, 0)}
       ELSE /\ bump_tasks' = [bump_tasks EXCEPT ![g].bump.pc = "send"]
            /\ out' = {}
            /\ UNCHANGED aborted
    /\ UNCHANGED <<config, discord, loaded, loop, orphans, cooldowns, reminded, uptime>>

\* channel.send(...), then the "Wait for Bump Task" is created and awaited
BumpSend(g) ==
    /\ bump_tasks[g].bump.pc = "send"
    /\ IF discord.perm[g] = "forbidden"
       THEN /\ bump_tasks' = [bump_tasks EXCEPT ![g].bump.pc = "returned"]
            /\ aborted' = [aborted EXCEPT ![g] = TRUE]
            /\ out' = {Event("warning", g, 0)}
            /\ UNCHANGED <<orphans, reminded>>
       ELSE /\ \E d \in SleepTicks(WAIT_TIMEOUT) :
                 bump_tasks' = [bump_tasks EXCEPT
                                  ![g].bump.pc = "await_wait",
                                  ![g].bump.bump_message = TRUE,
                                  ![g].wait = NewWaitTask(d)]
            /\ orphans' = IF Running(bump_tasks[g].wait)
                          THEN orphans \cup {<<g, "wait">>}
                          ELSE orphans
            /\ reminded' = [reminded EXCEPT ![g] = TRUE]
            /\ out' = {Event("reminder", g, 0)}
            /\ UNCHANGED aborted
    /\ UNCHANGED <<config, discord, loaded, loop, cooldowns, uptime>>

\* `await bump_task` (the wait task) resumes; asyncio.sleep(1) begins
BumpAwaitWait(g) ==
    /\ bump_tasks[g].bump.pc = "await_wait"
    /\ bump_tasks[g].wait.pc \in Finished
    /\ \E d \in SleepTicks(1) :
         bump_tasks' =
           IF bump_tasks[g].wait.pc = "returned"
           THEN [bump_tasks EXCEPT ![g].bump.pc = "sleep_1", ![g].bump.wake = Now + d]
           ELSE [bump_tasks EXCEPT ![g].bump.pc = bump_tasks[g].wait.pc]
    /\ out' = {}
    /\ UNCHANGED <<config, discord, loaded, loop, orphans, cooldowns, reminded,
                   aborted, uptime>>

\* asyncio.sleep(1) returns; the iteration over role.members begins
BumpWake(g) ==
    /\ bump_tasks[g].bump.pc = "sleep_1"
    /\ bump_tasks[g].bump.wake <= Now
    /\ bump_tasks' = [bump_tasks EXCEPT ![g].bump.pc = "members",
                                        ![g].bump.wake = 0,
                                        ![g].bump.todo = discord.members[RoleOf(g)]]
    /\ out' = {}
    /\ UNCHANGED <<config, discord, loaded, loop, orphans, cooldowns, reminded,
                   aborted, uptime>>

First(S) == CHOOSE m \in S : \A n \in S : m <= n

\* One pass of the for body over role.members: the arguments of member.send
\* are evaluated (among them the name `guild`), then the message is sent and a
\* Forbidden or HTTPException is swallowed.
BumpThank(g) ==
    /\ bump_tasks[g].bump.pc = "members"
    /\ bump_tasks[g].bump.todo # {}
    /\ LET member == First(bump_tasks[g].bump.todo)
       IN  IF Resolves("guild")
           THEN /\ bump_tasks' = [bump_tasks EXCEPT
                                    ![g].bump.todo = bump_tasks[g].bump.todo \ {member}]
                /\ \E delivered \in BOOLEAN :
                     out' = IF delivered THEN {Event("thank_you", g, member)} ELSE {}
           ELSE /\ bump_tasks' = [bump_tasks EXCEPT ![g].bump.pc = "raised",
                                                    ![g].bump.todo = {}]
                /\ out' = {Event("task_failed", g, 0)}
    /\ UNCHANGED <<config, discord, loaded, loop, orphans, cooldowns, reminded,
                   aborted, uptime>>

\* After the last member: next_bump = now + timedelta(hours=2) is computed
\* and stored, and bump returns.
BumpStamp(g) ==
    /\ bump_tasks[g].bump.pc = "members"
    /\ bump_tasks[g].bump.todo = {}
    /\ IF Resolves("datetime") /\ Resolves("timezone") /\ Resolves("timedelta")
       THEN /\ config' = [config EXCEPT ![g].next_bump = Some(Now + Ticks(BUMP_INTERVAL))]
            /\ bump_tasks' = [bump_tasks EXCEPT ![g].bump.pc = "returned"]
            /\ out' = {Event("next_bump", g, 0)}
       ELSE /\ bump_tasks' = [bump_tasks EXCEPT ![g].bump.pc = "raised"]
            /\ out' = {Event("task_failed", g, 0)}
            /\ UNCHANGED config
    /\ UNCHANGED <<discord, loaded, loop, orphans, cooldowns, reminded, aborted, uptime>>

-----------------------------------------------------------------------------
(* wait_for_bump: the "Wait for Bump Task" of guild g *)

\* a timeout after which the wait is begun again
WaitTimeout_Retry(g) ==
    /\ bump_tasks[g].wait.pc = "wait_for"
    /\ bump_tasks[g].wait.wake <= Now
    /\ bump_tasks' = [bump_tasks EXCEPT ![g].wait.wake = Now + Ticks(WAIT_TIMEOUT) + 1]
    /\ out' = {Event("warning", g, 0)}
    /\ UNCHANGED <<config, discord, loaded, loop, orphans, cooldowns, reminded,
                   aborted, uptime>>

\* bot.wait_for raises asyncio.TimeoutError: logged, None is returned
WaitTimeout(g) ==
    /\ bump_tasks[g].wait.pc = "wait_for"
    /\ bump_tasks[g].wait.wake <= Now
    /\ bump_tasks' = [bump_tasks EXCEPT ![g].wait.pc = "returned",
                                        ![g].wait.wake = 0]
    /\ out' = {Event("warning", g, 0)}
    /\ UNCHANGED <<config, discord, loaded, loop, orphans, cooldowns, reminded,
                   aborted, uptime>>

\* bot.wait_for returns m to every waiter whose check accepts it
Deliver(tasks, m) ==
    [g \in Guilds |->
        IF tasks[g].wait.pc = "wait_for" /\ check(m)
        THEN [tasks[g] EXCEPT !.wait.pc = "returned", !.wait.wake = 0, !.wait.bump = m]
        ELSE tasks[g]]

-----------------------------------------------------------------------------
(* on_message *)

\* The handler up to `await asyncio.sleep(2 * 60 * 60)`
Cooldown(m) ==
    [channel |-> ChannelOf(m.guild), guild |-> m.guild,
     wake |-> Now + Ticks(COOLDOWN)]

\* The gateway dispatches a "message" event: the waiters of bot.wait_for are
\* served and the cog's listener runs.  A body that matches BUMP_RE from
\* another author than DISCORD_BOT_ID fails the author test of both.
Message(m) ==
    /\ loaded
    /\ ~Busy
    /\ IsBumpSignal(m) => Len(cooldowns) < MaxCooldowns
    /\ bump_tasks' = Deliver(bump_tasks, m)
    /\ cooldowns' = IF IsBumpSignal(m)
                    THEN Append(cooldowns, Cooldown(m))
                    ELSE cooldowns
    /\ aborted' = IF IsBumpSignal(m) THEN [aborted EXCEPT ![m.guild] = FALSE] ELSE aborted
    /\ out' = IF IsBumpSignal(m) THEN {Event("cooldown_started", m.guild, 0)}
              ELSE IF Search(m.content) THEN {Event("ignored", 0, 0)}
              ELSE {}
    /\ UNCHANGED <<config, discord, loaded, loop, orphans, reminded, uptime>>

\* The gateway dispatches a "message_edit" event for a message edited to m.
\* The cog registers no listener for it and bot.wait_for("message", ...) is
\* not served by it.  (Next follows the edits that result in a bump signal;
\* any other edit is as much without effect.)
MessageEdit(m) ==
    /\ loaded
    /\ ~Busy
    /\ out' = {}
    /\ UNCHANGED <<config, discord, loaded, loop, bump_tasks, orphans, cooldowns,
                   reminded, aborted, uptime>>

\* The 2-hour sleep returns: "Cooldown ended", message.add_reaction
CooldownEnd(i) ==
    /\ cooldowns[i].wake <= Now
    /\ cooldowns' = SubSeq(cooldowns, 1, i - 1) \o SubSeq(cooldowns, i + 1, Len(cooldowns))
    /\ out' = {Event("reaction", cooldowns[i].guild, 0)}
    /\ UNCHANGED <<config, discord, loaded, loop, bump_tasks, orphans, reminded,
                   aborted, uptime>>

-----------------------------------------------------------------------------
(* cog_unload *)

Cancel(t) == IF Running(t) THEN [t EXCEPT !.pc = "cancelled", !.wake = 0, !.todo = {}] ELSE t

\* __unload: the bump loop and every task in bump_tasks is cancelled.  Each
\* is suspended at an await (or not yet started), where CancelledError ends it.
Unload ==
    /\ loaded
    /\ ~Busy
    /\ loaded' = FALSE
    /\ loop' = IF loop.pc \in Finished
               THEN loop
               ELSE [loop EXCEPT !.pc = "cancelled", !.data = NoData, !.idx = 1,
                                 !.wake = 0]
    /\ bump_tasks' = [g \in Guilds |->
                        [bump |-> Cancel(bump_tasks[g].bump),
                         wait |-> Cancel(bump_tasks[g].wait)]]
    /\ out' = {}
    /\ UNCHANGED <<config, discord, orphans, cooldowns, reminded, aborted, uptime>>

-----------------------------------------------------------------------------
(* The clock *)

Sleeping(t) == t.pc \in {"sleep_1", "sleep_delta", "wait_for"}

TickTask(t) == IF Sleeping(t) THEN [t EXCEPT !.wake = t.wake - 1] ELSE t

TickData(d) == [d EXCEPT !.next_bump = EarlierOpt(d.next_bump)]

\* One clock unit passes: every held instant is one unit nearer or further
\* in the past.
Tick ==
    /\ ~Busy
    /\ config' = [g \in Guilds |-> TickData(config[g])]
    /\ loop' = [TickTask(loop) EXCEPT
                  !.data = IF loop.data = NoData THEN NoData
                           ELSE [g \in Guilds |-> TickData(loop.data[g])]]
    /\ bump_tasks' = [g \in Guilds |->
                        [bump |-> TickTask(bump_tasks[g].bump),
                         wait |-> TickTask(bump_tasks[g].wait)]]
    /\ cooldowns' = [i \in 1..Len(cooldowns) |->
                       [cooldowns[i] EXCEPT !.wake = cooldowns[i].wake - 1]]
    /\ uptime' = IF uptime < 0 \/ uptime >= MaxPast THEN uptime ELSE uptime + 1
    /\ out' = {}
    /\ UNCHANGED <<discord, loaded, orphans, reminded, aborted>>

-----------------------------------------------------------------------------

Next ==
    \/ LoopReady
    \/ LoopAllGuilds
    \/ LoopVisit
    \/ LoopAwaitBump
    \/ LoopWake
    \/ \E g \in Guilds : BumpBegin(g)
    \/ \E g \in Guilds : BumpSend(g)
    \/ \E g \in Guilds : BumpAwaitWait(g)
    \/ \E g \in Guilds : BumpWake(g)
    \/ \E g \in Guilds : BumpThank(g)
    \/ \E g \in Guilds : BumpStamp(g)
    \/ \E g \in Guilds : WaitTimeout(g)
    \/ \E m \in {x \in Messages : IsBumpSignal(x)} : MessageEdit(m)
    \/ \E m \in Messages : Message(m)
    \/ \E i \in 1..Len(cooldowns) : CooldownEnd(i)
    \/ Unload
    \/ Tick

Spec == Init /\ [][Next]_vars

\* The coroutines' own steps: what the event loop runs whenever it is ready.
Run ==
    \/ LoopAllGuilds
    \/ LoopVisit
    \/ LoopAwaitBump
    \/ LoopWake
    \/ \E g \in Guilds : BumpBegin(g)
    \/ \E g \in Guilds : BumpSend(g)
    \/ \E g \in Guilds : BumpAwaitWait(g)
    \/ \E g \in Guilds : BumpWake(g)
    \/ \E g \in Guilds : BumpThank(g)
    \/ \E g \in Guilds : BumpStamp(g)
    \/ \E g \in Guilds : WaitTimeout(g)
    \/ \E i \in 1..Len(cooldowns) : CooldownEnd(i)

NextLoaded ==
    \/ LoopReady
    \/ Run
    \/ \E m \in {x \in Messages : IsBumpSignal(x)} : MessageEdit(m)
    \/ \E m \in Messages : Message(m)
    \/ Tick

\* The cog is never unloaded; the gateway becomes ready, the event loop runs
\* every coroutine that is ready and the clock advances.
LiveSpec ==
    /\ Init
    /\ [][NextLoaded]_vars
    /\ WF_vars(LoopReady)
    /\ WF_vars(Run)
    /\ WF_vars(Tick)

-----------------------------------------------------------------------------
(* Properties *)

\* The guild's reminder can be sent: its channel and role are set and
\* resolve, and the bot may send to the channel.
Valid(g) ==
    /\ config[g].channel # None
    /\ Val(config[g].channel) \in discord.channels
    /\ config[g].role # None
    /\ Val(config[g].role) \in discord.roles
    /\ discord.perm[g] = "ok"

\* The countdowns pending for guild g's channel: the cooldowns started by
\* bump confirmations there, and the loop's sleep until g's next_bump.
LiveTimers(g) ==
    Cardinality({i \in 1..Len(cooldowns) : cooldowns[i].channel = ChannelOf(g)})
    + (IF loop.pc = "sleep_delta" /\ LoopGuild = g THEN 1 ELSE 0)

\* C1: at every instant there is at most one live timer per (guild, channel):
\* a new countdown for a key replaces the one that was pending.
C1_OneLiveTimerPerKey == \A g \in Guilds : LiveTimers(g) <= 1

DispatchEffects == {"reminder", "thank_you", "reaction", "next_bump"}

\* C2: once the cog is unloaded, no step sends a reminder or a thank-you,
\* adds the cooldown-ended reaction or writes next_bump.
C2_NothingFiresAfterUnload ==
    [][~loaded => \A e \in out' : e.kind \notin DispatchEffects]_vars

\* C3: an exception raised in a guild's bump task never terminates
\* bump_check_loop.
C3_LoopSurvivesTaskFailure == loop.pc # "raised"

\* C4: a guild whose reminder can be sent and whose persisted next_bump T is
\* set has its reminder sent at max(T, start): it is never the case that both
\* T and the start of the loop lie two clock units back and no reminder went out.
C4_RestartFiresAtMax ==
    \A g \in Guilds :
        ( /\ loaded
          /\ Valid(g)
          /\ config[g].next_bump # None
          /\ Val(config[g].next_bump) + 2 <= Now
          /\ uptime >= 2 )
        => reminded[g]

\* C5: while the countdown started by a bump signal at t is pending, the
\* persisted next_bump of that guild is t + 2h, the instant the countdown ends.
C5_SignalArmsNextBump ==
    \A i \in 1..Len(cooldowns) :
        config[cooldowns[i].guild].next_bump = Some(cooldowns[i].wake)

\* bump_check_loop is suspended for guild a beyond the current instant: in
\* the sleep until a's next_bump, or awaiting a's dispatch while that waits
\* for the bump confirmation.
LoopHeldBy(a) ==
    /\ LoopGuild = a
    /\ \/ loop.pc = "sleep_delta" /\ loop.wake > Now
       \/ /\ loop.pc = "await_bump"
          /\ bump_tasks[a].bump.pc = "await_wait"
          /\ bump_tasks[a].wait.pc = "wait_for"
          /\ bump_tasks[a].wait.wake > Now

\* C6: a guild whose next_bump is due and whose reminder can be sent is
\* being dispatched; it never stands waiting while the loop is held by
\* another guild's sleep or confirmation wait.
C6_NoCrossGuildBlocking ==
    \A a, b \in Guilds :
        ( /\ a # b
          /\ LoopHeldBy(a)
          /\ Valid(b)
          /\ config[b].next_bump # None
          /\ Now >= Val(config[b].next_bump) )
        => Running(bump_tasks[b].bump)

\* C7: after a dispatch for a guild was aborted (channel not resolved, no
\* send permission, Forbidden) no dispatch is attempted for that guild until
\* a bump signal arrives for it.
C7_NoRetryAfterAbort ==
    [][\A g \in Guilds : aborted[g] => Event("dispatch", g, 0) \notin out']_vars

\* C8: no reminder is sent for a guild whose persisted next_bump is None.
C8_UnarmedStaysUnarmed ==
    \A g \in Guilds :
        config[g].next_bump = None => Event("reminder", g, 0) \notin out

\* C9: when a dispatch that sent its reminder finishes, the store holds
\* next_bump = the instant it finished + 2 hours for that guild.
C9_SuccessfulDispatchStampsNextBump ==
    [][\A g \in Guilds :
          ( /\ bump_tasks[g].bump.bump_message
            /\ Running(bump_tasks[g].bump)
            /\ bump_tasks'[g].bump.pc \in {"returned", "raised"} )
          => config'[g].next_bump = Some(Now + Ticks(BUMP_INTERVAL))]_vars

\* C10: for every guild whose reminder can be sent, a reminder is sent
\* again and again, for ever.
C10_ReminderRepeatsForever ==
    \A g \in Guilds : Valid(g) => []<>(Event("reminder", g, 0) \in out)

\* C11: handling a message whose body matches BUMP_RE but whose author is not
\* DISCORD_BOT_ID starts no cooldown, completes no pending confirmation wait
\* and leaves the store, the task table and the rest of the scheduler's state
\* as they were.
C11_ForeignAuthorIsNoSignal ==
    [][Event("ignored", 0, 0) \in out'
       => UNCHANGED <<config, discord, loaded, loop, bump_tasks, orphans,
                      cooldowns, reminded, aborted, uptime>>]_vars

\* Such a message has just been handled while a confirmation wait and a
\* cooldown were pending.
C11_Witness ==
    /\ Event("ignored", 0, 0) \in out
    /\ \E g \in Guilds : bump_tasks[g].wait.pc = "wait_for"
    /\ Len(cooldowns) > 0

\* C12: in the thank-you batch of a role that has members, a member whose
\* direct message fails does not end the batch: after each member, reached
\* or not, the task goes on to the next one, and after the last one it stores
\* next_bump = now + 2 hours.
C12_ThankYouBatchIsolated ==
    [][\A g \in Guilds :
          LET t == bump_tasks[g].bump
          IN  ( /\ discord.members[RoleOf(g)] # {}
                /\ t.pc = "members"
                /\ bump_tasks'[g].bump # t )
              => IF t.todo # {}
                 THEN /\ bump_tasks'[g].bump.pc = "members"
                      /\ bump_tasks'[g].bump.todo = t.todo \ {First(t.todo)}
                 ELSE config'[g].next_bump = Some(Now + Ticks(BUMP_INTERVAL))]_vars

\* C13: bump_check_loop never sleeps a delay that is not strictly positive:
\* the visit of a guild whose reminder can be scheduled and whose next_bump
\* is not later than now dispatches it at once, and the sleep a visit begins
\* ends strictly later than now.
C13_SleepDelayPositive ==
    [][loop.pc = "visit" /\ loop' # loop
       => LET g == LoopGuild
              guild_data == loop.data[g]
          IN  /\ loop'.pc = "sleep_delta" => loop'.wake - Now > 0
              /\ ( /\ guild_data.channel # None
                   /\ Val(guild_data.channel) \in discord.channels
                   /\ guild_data.role # None
                   /\ Val(guild_data.role) \in discord.roles
                   /\ guild_data.next_bump # None
                   /\ Now >= Val(guild_data.next_bump) )
                 => /\ loop'.pc = "await_bump"
                    /\ Event("dispatch", g, 0) \in out']_vars

\* The loop sleeps until a next_bump that lies ahead, after it dispatched at
\* once a guild whose next_bump had passed (a dispatch that returned for
\* want of send permission).
C13_Witness ==
    /\ loop.pc = "sleep_delta"
    /\ loop.wake > Now
    /\ Val(loop.data[LoopGuild].next_bump) > Now
    /\ \E g \in Guilds :
         /\ g # LoopGuild
         /\ bump_tasks[g].bump.pc = "returned"
         /\ config[g].next_bump # None
         /\ Val(config[g].next_bump) <= Now

\* LiveSpec for guilds that all have channel, role and send permission in
\* order: the guilds in which a confirmation wait is ever begun.
ValidInit == Init /\ \A g \in Guilds : Valid(g)

WaitSpec ==
    /\ ValidInit
    /\ [][NextLoaded]_vars
    /\ WF_vars(LoopReady)
    /\ WF_vars(Run)
    /\ WF_vars(Tick)

\* C14: the confirmation wait is bounded.  A pending wait's deadline is never
\* more than 15 minutes ahead and never moves; the wait ends, with a message
\* its filter accepts or, once the deadline has passed, with none; and a wait
\* begins only when a dispatch has sent its reminder, never again after a
\* timeout in the same dispatch.
C14_WaitIsBounded ==
    /\ [][\A g \in Guilds :
            LET w == bump_tasks[g].wait
                v == bump_tasks'[g].wait
            IN  /\ v.pc = "wait_for"
                   => /\ \E d \in SleepTicks(WAIT_TIMEOUT) : v.wake <= Now + d
                      /\ w.pc = "wait_for" => v.wake <= w.wake
                      /\ w.pc # "wait_for" => bump_tasks[g].bump.pc = "send"
                /\ (w.pc = "wait_for" /\ v.pc = "returned")
                   => \/ check(v.bump)
                      \/ v.bump = NoMessage /\ w.wake <= Now]_vars
    /\ \A g \in Guilds :
         bump_tasks[g].wait.pc = "wait_for" ~> bump_tasks[g].wait.pc = "returned"

\* A confirmation wait has ended at its deadline with no message, and the
\* dispatch that began it has gone on without beginning another.
C14_Witness ==
    \E g \in Guilds :
        /\ bump_tasks[g].wait.pc = "returned"
        /\ bump_tasks[g].wait.bump = NoMessage
        /\ bump_tasks[g].bump.pc = "sleep_1"

\* C15: while the confirmation wait of a guild's dispatch has returned no
\* bump confirmation (it timed out), no step sends a thank-you message to a
\* member of that guild's role: a thank-you is sent only after a
\* confirmation was returned.
C15_ThankYouOnlyAfterConfirmation ==
    \A g \in Guilds :
        bump_tasks[g].wait.bump = NoMessage
        => \A e \in out : ~(e.kind = "thank_you" /\ e.guild = g)

\* A dispatch whose wait timed out has reached the thank-you step for a role
\* with members and has ended there.
C15_Witness ==
    \E g \in Guilds :
        /\ bump_tasks[g].wait.pc = "returned"
        /\ bump_tasks[g].wait.bump = NoMessage
        /\ discord.members[RoleOf(g)] # {}
        /\ bump_tasks[g].bump.pc = "raised"
        /\ Event("task_failed", g, 0) \in out

\* C16: the role is optional.  The visit of a guild whose channel resolves,
\* where the bot may send, whose next_bump has passed and whose role is not
\* set or does not resolve dispatches the guild's reminder.
C16_RoleIsOptional ==
    [][loop.pc = "visit" /\ loop' # loop
       => LET g == LoopGuild
              guild_data == loop.data[g]
          IN  ( /\ guild_data.channel # None
                /\ Val(guild_data.channel) \in discord.channels
                /\ discord.perm[g] = "ok"
                /\ \/ guild_data.role = None
                   \/ Val(guild_data.role) \notin discord.roles
                /\ guild_data.next_bump # None
                /\ Now >= Val(guild_data.next_bump) )
              => Event("dispatch", g, 0) \in out']_vars

\* C17: a message-edited event whose resulting message m is a bump signal
\* has the effect of a message-created event for m: the pending confirmation
\* waits that accept m are completed and the 2-hour cooldown is started.
C17_EditedMessageIsSignal ==
    [][\A m \in Messages :
          (IsBumpSignal(m) /\ MessageEdit(m))
          => /\ bump_tasks' = Deliver(bump_tasks, m)
             /\ cooldowns' = Append(cooldowns, Cooldown(m))]_vars

\* C18: the Bump Task of a guild where the bot may not send (no send
\* permission, or channel.send raises Forbidden) only returns: each of its
\* steps creates no confirmation wait, sends no reminder and no thank-you
\* message and leaves the stored keys of every guild, next_bump among them,
\* unchanged.
C18_AbortedDispatchChangesNothing ==
    [][\A g \in Guilds :
          LET t == bump_tasks[g].bump
          IN  ( /\ discord.perm[g] # "ok"
                /\ t.pc \in {"created", "send"}
                /\ bump_tasks'[g].bump # t )
              => /\ bump_tasks'[g].bump.pc =
                      IF discord.perm[g] = "forbidden" /\ t.pc = "created"
                      THEN "send"
                      ELSE "returned"
                 /\ bump_tasks'[g].wait = bump_tasks[g].wait
                 /\ config' = config
                 /\ \A e \in out' : e.kind \notin DispatchEffects]_vars

\* A dispatch has just returned because channel.send raised Forbidden, with
\* a next_bump in the store and no confirmation wait.
C18_Witness ==
    \E g \in Guilds :
        /\ discord.perm[g] = "forbidden"
        /\ bump_tasks[g].bump.pc = "returned"
        /\ bump_tasks[g].wait.pc = "absent"
        /\ config[g].next_bump # None
        /\ Event("warning", g, 0) \in out

\* C19: dispatches are serialized.  At most one Bump Task and at most one
\* Wait for Bump Task is running over all guilds, and no entry of bump_tasks
\* was overwritten while the task it held was still running.
C19_DispatchesSerialized ==
    /\ Cardinality({g \in Guilds : Running(bump_tasks[g].bump)}) <= 1
    /\ Cardinality({g \in Guilds : Running(bump_tasks[g].wait)}) <= 1
    /\ orphans = {}

\* A guild's entry has been overwritten by a new Bump Task after its earlier
\* dispatch had returned, while no other task runs.
C19_Witness ==
    \E g \in Guilds :
        /\ bump_tasks[g].bump.pc = "created"
        /\ aborted[g]
        /\ discord.perm[g] # "ok"
        /\ \A h \in Guilds \ {g} : bump_tasks[h].bump.pc \in Finished

\* C20: the confirmation wait begun for guild g's reminder is completed only
\* by a bump confirmation posted in guild g.
C20_WaitCompletedByOwnGuild ==
    \A g \in Guilds :
        bump_tasks[g].wait.bump # NoMessage => bump_tasks[g].wait.bump.guild = g

====
